---- MODULE Spec2Model ----
(***************************************************************************)
(* The ACLU NSA-documents harvesting pipeline: the crawl                   *)
(* (scrape_nsa2.py) and the download stage (download_scrape_nsa2.py).      *)
(*                                                                         *)
(* Values that Python leaves optional (None, a missing attribute, a missing*)
(* element) are sequences of length 0 or 1: <<>> is None, <<v>> is v.      *)
(***************************************************************************)
EXTENDS Integers, Sequences, FiniteSets, TLC

(***************************************************************************)
(* Bounds of the model.                                                    *)
(***************************************************************************)
\* the site never serves a listing page beyond this page number
MaxPage == 2
\* the most document cards on one listing page
MaxEntries == 2
\* the most rows of a database handed to the download stage
MaxRows == 2
\* the most page-number elements of a listing page
MaxPageElems == 2

None == <<>>
Some(v) == <<v>>

(***************************************************************************)
(* URLs.  A listing URL is kept in the parts urlparse gives: scheme,       *)
(* netloc, the path's segments (slash: the path ends in "/"), the raw      *)
(* key=value pairs of the query and the fragment.  A relative reference has*)
(* scheme "" and netloc "".  Detail and PDF URLs are plain strings.        *)
(***************************************************************************)
SiteBase == "https://www.aclu.org"

Url(scheme, netloc, path, slash, query, fragment) ==
    [scheme |-> scheme, netloc |-> netloc, path |-> path, slash |-> slash,
     query |-> query, fragment |-> fragment]

\* f"{base_url}/page/{page}?document_date={year}#listings"
ListingUrl(pg, year) ==
    Url("https", "www.aclu.org",
        <<"foia-collections", "nsa-documents-search", "page", ToString(pg)>>,
        FALSE, <<[k |-> "document_date", v |-> ToString(year)]>>, "listings")

\* urljoin("https://www.aclu.org", href) for an href kept in parts: a
\* reference with a scheme stands as it is, any other takes the site's
\* scheme and host.
urljoin(href) ==
    IF href.scheme # "" THEN href
    ELSE [href EXCEPT !.scheme = "https", !.netloc = "www.aclu.org"]

\* the hrefs of the model that carry their own scheme
AbsoluteHrefs == {"https://assets.aclu.org/live/b.pdf"}

\* urljoin("https://www.aclu.org", href) for an href kept as a string
urljoinStr(href) ==
    IF href \in AbsoluteHrefs THEN href ELSE SiteBase \o href

\* the path segments of the model that end in "page"
PageSuffixed == {"page", "homepage"}

\* 'page/' in next_url: a segment ending in "page" followed by a "/".  No
\* host, query or fragment of the model holds "page/".
HasPageMarker(u) ==
    \E i \in 1..Len(u.path) :
        u.path[i] \in PageSuffixed /\ (i < Len(u.path) \/ u.slash)

\* unquote of a raw query token: %20 and + both decode to a space
Unquote(s) ==
    CASE s = "a%20b" -> "a b"
      [] s = "a+b" -> "a b"
      [] OTHER -> s

\* quote_plus of a decoded token: a space encodes as +
QuotePlus(s) ==
    CASE s = "a b" -> "a+b"
      [] OTHER -> s

RECURSIVE KeysInOrder(_)
\* the keys of a pair list, each once, in the order of first appearance
KeysInOrder(ps) ==
    IF ps = <<>> THEN <<>>
    ELSE LET rest == SelectSeq(Tail(ps), LAMBDA p : p.k # Head(ps).k)
         IN  <<Head(ps).k>> \o KeysInOrder(rest)

\* parse_qs: pairs with a blank value are dropped, keys and values are
\* decoded, and the values are grouped per key (a dict keeps the order in
\* which its keys first appear).
parse_qs(q) ==
    LET nb == SelectSeq(q, LAMBDA p : p.v # "")
        dec == [i \in 1..Len(nb) |->
                   [k |-> Unquote(nb[i].k), v |-> Unquote(nb[i].v)]]
        ks == KeysInOrder(dec)
    IN  [i \in 1..Len(ks) |->
            [k |-> ks[i], vs |-> SelectSeq(dec, LAMBDA p : p.k = ks[i])]]

RECURSIVE urlencode(_)
\* urlencode(query, doseq=True): key by key, one pair per value
urlencode(d) ==
    IF d = <<>> THEN <<>>
    ELSE LET g == Head(d)
         IN  [i \in 1..Len(g.vs) |->
                 [k |-> QuotePlus(g.k), v |-> QuotePlus(g.vs[i].v)]]
             \o urlencode(Tail(d))

(***************************************************************************)
(* Pagination Resolver.  Of a listing page it reads: whether a             *)
(* nav.page-numbers exists, the href of its a.next (next: <<>> no such     *)
(* anchor, <<<<>>>> an anchor without href, <<<<h>>>> with one) and the    *)
(* a.page-numbers / span.page-numbers elements in document order.          *)
(***************************************************************************)
\* int(a.get_text(strip=True)); a text that is no number raises, and the
\* element is passed over
ParseInt(text) ==
    IF \E n \in 0..99 : ToString(n) = text
    THEN Some(CHOOSE n \in 0..99 : ToString(n) = text)
    ELSE None

\* a reference with nothing in it: href="" (falsy)
EmptyHref == Url("", "", <<>>, FALSE, <<>>, "")

\* next_a and next_a.get('href')
ExplicitNext(soup) ==
    IF soup.nav /\ soup.next # <<>> /\ soup.next[1] # <<>>
          /\ soup.next[1][1] # EmptyHref
    THEN Some(soup.next[1][1]) ELSE None

RECURSIVE CurrentPage(_, _)
\* the loop of lines 19-26: the last numbered element that is marked
\* current or is a span
CurrentPage(elems, cur) ==
    IF elems = <<>> THEN cur
    ELSE LET a == Head(elems)
             n == ParseInt(a.text)
         IN  CurrentPage(Tail(elems),
                         IF n # None /\ (a.current \/ a.span) THEN n ELSE cur)

\* the synthesized URL of lines 29-38
FallbackUrl(current_page, current_url) ==
    LET query == parse_qs(current_url.query)
        next_page == current_page + 1
    IN  Url(current_url.scheme, current_url.netloc,
            current_url.path \o <<"page", ToString(next_page)>>, FALSE,
            IF query # <<>> THEN urlencode(query) ELSE <<>>,
            current_url.fragment)

get_next_page_url(soup, current_url) ==
    LET nxt == ExplicitNext(soup)
        current_page == CurrentPage(soup.nums, None)
    IN  IF nxt # None THEN Some(urljoin(nxt[1]))
        ELSE IF current_page # None
             THEN Some(FallbackUrl(current_page[1], current_url))
             ELSE None

(***************************************************************************)
(* Listing Parser.  A card is what the parser reads of one                 *)
(* a.document-listing-card: its href, the text of its div.is-size-4 and the*)
(* text of the element holding "Document Date:", each optional.            *)
(***************************************************************************)
\* doc_date.replace("Document Date:", "").strip() of the texts of the model
StripDateLabel(text) ==
    CASE text = "Document Date: 06/05/2013" -> "06/05/2013"
      [] text = "Document Date: 2014" -> "2014"
      [] OTHER -> text

\* lines 44-56 for one card: <<>> for a card without href (continue)
ParseCard(card) ==
    IF card.href = None \/ card.href[1] = "" THEN <<>>
    ELSE <<[detail_url |-> urljoinStr(card.href[1]),
            title |-> IF card.title # None THEN card.title[1]
                      ELSE "Unknown Title",
            doc_date |-> StripDateLabel(IF card.date # None THEN card.date[1]
                                        ELSE "Unknown Date")]>>

RECURSIVE get_detail_pages_from_listing(_)
\* the entries of a page, in page order
get_detail_pages_from_listing(cards) ==
    IF cards = <<>> THEN <<>>
    ELSE ParseCard(Head(cards)) \o get_detail_pages_from_listing(Tail(cards))

(***************************************************************************)
(* Detail Resolver.  A response is the outcome of the GET ("exception": the*)
(* request raised, "status": a status other than 200, "ok") and, of the    *)
(* page, the first <a download> and the first <a> whose text holds         *)
(* "Download document" (each optional, each with an optional href).        *)
(* The result is what the caller gets: raised tells whether an exception   *)
(* left the function, value is the returned URL or None.                   *)
(***************************************************************************)
\* soup.find('a', download=True) or soup.find('a', string=...): a Tag is
\* truthy, so the first anchor found is taken even when it has no href
FoundAnchor(resp) ==
    IF resp.dl # None THEN resp.dl ELSE resp.txt

\* the resolver without its try: a raising request leaves the function
get_direct_pdf_url_NoTry(resp) ==
    LET a == IF resp.dl # None THEN resp.dl ELSE resp.txt
    IN  CASE resp.fetch = "exception" -> [raised |-> TRUE, value |-> None]
          [] resp.fetch = "status" -> [raised |-> FALSE, value |-> None]
          [] OTHER ->
               IF a # None /\ a[1].href # None /\ a[1].href[1] # ""
               THEN [raised |-> FALSE,
                     value |-> Some(IF a[1].href[1] \in AbsoluteHrefs THEN a[1].href[1]
                                    ELSE SiteBase \o a[1].href[1])]
               ELSE [raised |-> FALSE, value |-> None]

get_direct_pdf_url(resp) ==
    LET a == FoundAnchor(resp)
    IN  CASE resp.fetch = "exception" -> [raised |-> FALSE, value |-> None]
          [] resp.fetch = "status" -> [raised |-> FALSE, value |-> None]
          [] OTHER ->
               IF a # None /\ a[1].href # None /\ a[1].href[1] # ""
               THEN [raised |-> FALSE, value |-> Some(urljoinStr(a[1].href[1]))]
               ELSE [raised |-> FALSE, value |-> None]

(***************************************************************************)
(* Record Store.  The table ACLU is the set of its rows; Page is the       *)
(* primary key.  NULL is the SQL null of a column.                         *)
(***************************************************************************)
NULL == "NULL"

Row(page, date, pdf, dup, year) ==
    [Page |-> page, Document_Date |-> date, DirectPDF_Link |-> pdf,
     Duplicate |-> dup, Year_From_URL |-> year]

\* INSERT without OR REPLACE semantics on the key: the old row stays beside
\* the new one
InsertKeepingOld(tbl, row) == tbl \cup {row}

\* INSERT OR IGNORE: an existing row of the key wins
InsertOrIgnore(tbl, row) ==
    IF \E r \in tbl : r.Page = row.Page THEN tbl ELSE tbl \cup {row}

\* INSERT OR REPLACE: the row of the same key, if any, goes and the new one
\* comes
InsertOrReplace(tbl, row) ==
    {r \in tbl : r.Page # row.Page} \cup {row}

\* insert_into_db that computes no duplicate flag: every row is written 'No'
insert_into_db_NeverFlags(tbl, page_url, doc_date, pdf_url, year_from_url, stmt) ==
    IF stmt = "ok"
    THEN {r \in tbl : r.Page # page_url}
            \cup {[Page |-> page_url, Document_Date |-> doc_date,
                   DirectPDF_Link |-> pdf_url, Duplicate |-> "No",
                   Year_From_URL |-> year_from_url]}
    ELSE tbl

\* insert_into_db: the table after the call.  stmt is how the statements
\* went: "ok", or "raise" when one of them (the SELECT, the INSERT, the
\* commit) raised; the except clause then logs and the committed rows stay
\* as they were.
insert_into_db(tbl, page_url, doc_date, pdf_url, year_from_url, stmt) ==
    LET exists == \E r \in tbl : r.Page = page_url
        duplicate == IF exists THEN "Yes" ELSE "No"
    IN  IF stmt = "ok"
        THEN InsertOrReplace(tbl, Row(page_url, doc_date, pdf_url, duplicate,
                                      year_from_url))
        ELSE tbl

\* load_rows whose filter forgets the rows with a NULL Duplicate
load_rows_NoNullDuplicate(tbl, include_duplicates) ==
    IF include_duplicates
    THEN {r \in tbl : r.DirectPDF_Link # NULL /\ r.DirectPDF_Link # ""}
    ELSE {r \in tbl : /\ r.DirectPDF_Link # NULL /\ r.DirectPDF_Link # ""
                      /\ r.Duplicate = "No"}

\* load_rows: the rows the download stage selects (it reads rowid,
\* DirectPDF_Link and Year_From_URL of each)
load_rows(tbl, include_duplicates) ==
    IF include_duplicates
    THEN {r \in tbl : r.DirectPDF_Link # NULL /\ r.DirectPDF_Link # ""}
    ELSE {r \in tbl : /\ r.DirectPDF_Link # NULL /\ r.DirectPDF_Link # ""
                      /\ (r.Duplicate = NULL \/ r.Duplicate = "No")}

(***************************************************************************)
(* The inputs of the crawl.                                                *)
(***************************************************************************)
\* years = [2018, 2017, ...]: the first two years of the configured list
Years == <<2018, 2017>>

RECURSIVE SeqsUpTo(_, _)
\* the sequences over S of length at most n
SeqsUpTo(S, n) ==
    IF n = 0 THEN {<<>>}
    ELSE LET shorter == SeqsUpTo(S, n - 1)
         IN  shorter \cup {Append(q, x) : q \in {r \in shorter : Len(r) = n - 1}, x \in S}

Opt(S) == {None} \cup {Some(x) : x \in S}

\* the answers of the detail pages the crawl runs against: the request
\* raises, a status other than 200, a page without download anchor, a
\* download anchor without href, and a download anchor with a site-relative
\* href
CrawlResponses ==
    { [fetch |-> "exception", dl |-> None, txt |-> None],
      [fetch |-> "status", dl |-> None, txt |-> None],
      [fetch |-> "ok", dl |-> None, txt |-> None],
      [fetch |-> "ok", dl |-> Some([href |-> None]), txt |-> None],
      [fetch |-> "ok", dl |-> Some([href |-> Some("/files/a.pdf")]), txt |-> None] }

\* the cards of the site's listing pages
CrawlCards ==
    { [href |-> None, title |-> None, date |-> None],
      [href |-> Some("/document/prism"), title |-> Some("PRISM slides"),
       date |-> Some("Document Date: 06/05/2013")],
      [href |-> Some("/document/xkeyscore"), title |-> None, date |-> None] }

\* the pagination controls of the site's listing pages: an explicit next
\* link to a page path, an explicit next link elsewhere, no next link but a
\* current page number, and no pagination control at all
CrawlPagination ==
    { [nav |-> TRUE,
       next |-> Some(Some(Url("", "", <<"foia-collections", "nsa-documents-search",
                                       "page", "2">>, FALSE, <<>>, ""))),
       nums |-> <<>>],
      [nav |-> TRUE,
       next |-> Some(Some(Url("", "", <<"foia-collections">>, FALSE, <<>>, ""))),
       nums |-> <<>>],
      [nav |-> FALSE, next |-> None,
       nums |-> <<[text |-> "1", current |-> TRUE, span |-> TRUE]>>],
      [nav |-> FALSE, next |-> None, nums |-> <<>>] }

\* what a detail page can answer: each anchor may lack its href, hold an
\* empty one, a site-relative one or an absolute one
Anchors == [href : Opt({"", "/files/a.pdf", "https://assets.aclu.org/live/b.pdf"})]
DetailResponses ==
    [fetch : {"exception", "status", "ok"}, dl : Opt(Anchors), txt : Opt(Anchors)]

\* the page-number elements and pagination controls a listing page can hold
PagElems == [text : {"1", "2", "Next"}, current : BOOLEAN, span : BOOLEAN]
PagSoups ==
    [nav : BOOLEAN,
     next : {None, Some(None), Some(Some(EmptyHref)),
             Some(Some(Url("", "", <<"foia-collections", "nsa-documents-search",
                                     "page", "2">>, FALSE, <<>>, "")))},
     nums : SeqsUpTo(PagElems, MaxPageElems)]

\* the current URLs the resolver is tried on: the URLs scrape_year builds,
\* the same with a further parameter that is blank, encoded or repeated,
\* with a closing slash, without fragment, and the collection's first page
\* (no page segment)
PagUrls ==
    LET base == ListingUrl(1, Years[1])
        dd == [k |-> "document_date", v |-> "2018"]
    IN  { base,
          ListingUrl(2, Years[2]),
          [base EXCEPT !.query = <<dd, [k |-> "q", v |-> ""]>>],
          [base EXCEPT !.query = <<dd, [k |-> "tag", v |-> "a%20b"]>>],
          [base EXCEPT !.query = <<[k |-> "tag", v |-> "x"], dd,
                                   [k |-> "tag", v |-> "y"]>>],
          [base EXCEPT !.slash = TRUE],
          [base EXCEPT !.fragment = ""],
          [base EXCEPT !.path = <<"foia-collections", "nsa-documents-search">>] }

\* the rows a database handed to the download stage can hold: the columns
\* the stage reads (Year_From_URL is set by every writer of the table)
DlRowKinds ==
    { [DirectPDF_Link |-> "https://www.aclu.org/files/a.pdf", Duplicate |-> "No",
       Year_From_URL |-> 2018],
      [DirectPDF_Link |-> "https://www.aclu.org/files/a.pdf", Duplicate |-> "Yes",
       Year_From_URL |-> 2018],
      [DirectPDF_Link |-> "https://www.aclu.org/files/a.pdf", Duplicate |-> NULL,
       Year_From_URL |-> 2017],
      [DirectPDF_Link |-> "https://www.aclu.org/files/a.pdf", Duplicate |-> "No",
       Year_From_URL |-> 2017],
      [DirectPDF_Link |-> "", Duplicate |-> "No", Year_From_URL |-> 2018],
      [DirectPDF_Link |-> NULL, Duplicate |-> "No", Year_From_URL |-> 2017] }

\* the databases: row i, when present, has rowid i and its own Page
DlDbs ==
    { { [rowid |-> i, Page |-> "https://www.aclu.org/document/" \o ToString(i),
         Document_Date |-> "Unknown Date",
         DirectPDF_Link |-> f[i][1].DirectPDF_Link,
         Duplicate |-> f[i][1].Duplicate,
         Year_From_URL |-> f[i][1].Year_From_URL] : i \in {j \in 1..MaxRows : f[j] # None} }
      : f \in [1..MaxRows -> Opt(DlRowKinds)] }

\* the detail-page URLs the crawl can meet
PageUrls == {urljoinStr(c.href[1]) : c \in {d \in CrawlCards : d.href # None}}

(***************************************************************************)
(* State.                                                                  *)
(***************************************************************************)
VARIABLES
    \* the crawl (scrape_nsa2.py)
    pc,             \* where the run of the script is
    table,          \* the rows of table ACLU
    yi,             \* the index in Years of the year being crawled
    page,           \* scrape_year: page
    items,          \* the entries of the fetched page still to be processed
    all_pdfs,       \* len(all_pdfs)
    next_url,       \* next_url of the page last paginated
    total,          \* __main__: total
    passes,         \* the passes ended in this run: [year, count] each
    endReason,      \* which break ended the pass
    timesUpserted,  \* per page_url, the upserts written so far (2: two or more)
    upsertYears,    \* per page_url, the years its upserts were written under
    passCalls,      \* per page_url, the insert_into_db calls of this pass (2: two or more)
    passUpserts,    \* the insert_into_db calls of this pass
    passResolved,   \* the entries of this pass the resolver gave a URL for
    passStored,     \* the entries of this pass whose row was written
    \* the Detail Resolver on its own
    dresp,          \* the answer of the detail page
    dresult,        \* what get_direct_pdf_url gave for it
    \* the Pagination Resolver on its own
    psoup,          \* the pagination control of the page
    purl,           \* current_url
    presult,        \* what get_next_page_url gave for them
    \* the download stage (download_scrape_nsa2.py)
    dlpc,           \* where main is
    db,             \* the rows of table ACLU in the file args.db
    env,            \* whether aria2c is installed and args.db exists
    args,           \* --force and --include-duplicates
    files,          \* the destination files that exist
    files0,         \* the destination files that existed when main started
    rows,           \* main: the rows still to be processed
    completed,      \* main: completed
    invoked         \* the rows download_one was called for

crawlVars == <<pc, table, yi, page, items, all_pdfs, next_url, total,
               passes, endReason, timesUpserted, upsertYears, passCalls,
               passUpserts, passResolved, passStored>>
detailVars == <<dresp, dresult>>
pagVars == <<psoup, purl, presult>>
dlVars == <<dlpc, db, env, args, files, files0, rows, completed, invoked>>

vars == <<crawlVars, detailVars, pagVars, dlVars>>

Zero == [p \in PageUrls |-> 0]
Sat(n) == IF n >= 2 THEN 2 ELSE n

\* the state before the crawl has started: init_db on a new file
CrawlInit ==
    /\ pc = "start"
    /\ table = {}
    /\ yi = 1
    /\ page = 1
    /\ items = <<>>
    /\ all_pdfs = 0
    /\ next_url = None
    /\ total = 0
    /\ passes = <<>>
    /\ endReason = "none"
    /\ timesUpserted = Zero
    /\ upsertYears = [p \in PageUrls |-> {}]
    /\ passCalls = Zero
    /\ passUpserts = 0
    /\ passResolved = 0
    /\ passStored = 0

\* the parts of the state a specification does not run
CrawlIdle == CrawlInit
NotRun == [done |-> FALSE, raised |-> FALSE, value |-> None]
DetailIdle == dresp = [fetch |-> "ok", dl |-> None, txt |-> None] /\ dresult = NotRun
PagIdle ==
    /\ psoup = [nav |-> FALSE, next |-> None, nums |-> <<>>]
    /\ purl = ListingUrl(1, Years[1])
    /\ presult = NotRun
DlIdle ==
    /\ dlpc = "idle"
    /\ db = {}
    /\ env = [aria2c |-> TRUE, db_file |-> TRUE]
    /\ args = [force |-> FALSE, include_duplicates |-> FALSE]
    /\ files = {}
    /\ files0 = {}
    /\ rows = <<>>
    /\ completed = 0
    /\ invoked = {}

(***************************************************************************)
(* The crawl.                                                              *)
(***************************************************************************)
\* __main__, lines 169-172: init_db keeps an existing table (CREATE TABLE
\* IF NOT EXISTS)
InitDb ==
    /\ pc = "start"
    /\ pc' = "year_start"
    /\ yi' = 1
    /\ total' = 0
    /\ passes' = <<>>
    /\ UNCHANGED <<table, page, items, all_pdfs, next_url, endReason,
                   timesUpserted, upsertYears, passCalls, passUpserts,
                   passResolved, passStored>>
    /\ UNCHANGED <<detailVars, pagVars, dlVars>>

\* init_db raises (the file cannot be opened): nothing catches it
InitDbFailed ==
    /\ pc = "start"
    /\ pc' = "aborted"
    /\ UNCHANGED <<table, yi, page, items, all_pdfs, next_url, total,
                   passes, endReason, timesUpserted, upsertYears, passCalls,
                   passUpserts, passResolved, passStored>>
    /\ UNCHANGED <<detailVars, pagVars, dlVars>>

\* scrape_year, lines 111-116
ScrapeYearBegin ==
    /\ pc = "year_start"
    /\ all_pdfs' = 0
    /\ page' = 1
    /\ pc' = "fetch"
    /\ UNCHANGED <<table, yi, items, next_url, total, passes, endReason,
                   timesUpserted, upsertYears, passCalls, passUpserts,
                   passResolved, passStored>>
    /\ UNCHANGED <<detailVars, pagVars, dlVars>>

\* lines 122-127: the GET or raise_for_status raised
PageFetchFailed ==
    /\ pc = "fetch"
    /\ pc' = "year_end"
    /\ endReason' = "fetch-failed"
    /\ UNCHANGED <<table, yi, page, items, all_pdfs, next_url, total,
                   passes, timesUpserted, upsertYears, passCalls, passUpserts,
                   passResolved, passStored>>
    /\ UNCHANGED <<detailVars, pagVars, dlVars>>

\* lines 119-136: the page is fetched and parsed.  The pagination control
\* of the page is read, and drawn, at line 147.
PageFetched ==
    /\ pc = "fetch"
    /\ \E cards \in SeqsUpTo(CrawlCards, MaxEntries) :
          /\ items' = get_detail_pages_from_listing(cards)
          /\ IF items' = <<>>
             THEN pc' = "year_end" /\ endReason' = "empty-page"
             ELSE pc' = "items" /\ endReason' = endReason
    /\ next_url' = None
    /\ UNCHANGED <<table, yi, page, all_pdfs, total, passes,
                   timesUpserted, upsertYears, passCalls, passUpserts,
                   passResolved, passStored>>
    /\ UNCHANGED <<detailVars, pagVars, dlVars>>

\* the entry is saved whatever the resolver gave
SavesEntry_Always(pdf) == TRUE

\* if pdf: (line 140)
SavesEntry(pdf) == pdf # None

\* a Python value as a statement parameter: None is bound as NULL
SqlParam(v) == IF v = None THEN NULL ELSE v[1]

\* lines 137-145 for one entry
ProcessItem ==
    /\ pc = "items"
    /\ \E resp \in CrawlResponses :
          LET item == Head(items)
              res == get_direct_pdf_url(resp)
              pdf == res.value
              url == item.detail_url
          IN  IF res.raised
              THEN /\ pc' = "aborted"
                   /\ UNCHANGED <<table, items, all_pdfs, timesUpserted,
                                  upsertYears, passCalls, passUpserts,
                                  passResolved, passStored>>
              ELSE /\ passResolved' = passResolved + (IF pdf # None THEN 1 ELSE 0)
                   /\ IF SavesEntry(pdf)
                      THEN \E stmt \in {"ok", "raise"} :
                           /\ table' = insert_into_db(table, url, item.doc_date,
                                                      SqlParam(pdf), Years[yi], stmt)
                           /\ all_pdfs' = all_pdfs + 1
                           /\ passCalls' = [passCalls EXCEPT ![url] = Sat(@ + 1)]
                           /\ passUpserts' = passUpserts + 1
                           /\ IF stmt = "ok"
                              THEN /\ timesUpserted' =
                                        [timesUpserted EXCEPT ![url] = Sat(@ + 1)]
                                   /\ upsertYears' =
                                        [upsertYears EXCEPT ![url] = @ \cup {Years[yi]}]
                                   /\ passStored' = passStored + 1
                              ELSE UNCHANGED <<timesUpserted, upsertYears, passStored>>
                      ELSE UNCHANGED <<table, all_pdfs, timesUpserted, upsertYears,
                                       passCalls, passUpserts, passStored>>
                   /\ items' = Tail(items)
                   /\ pc' = IF Tail(items) = <<>> THEN "paginate" ELSE "items"
    /\ UNCHANGED <<yi, page, next_url, total, passes, endReason>>
    /\ UNCHANGED <<detailVars, pagVars, dlVars>>

\* the test without its page-path marker: any next URL goes on
ValidNext_AnyUrl(n) == n # None

\* next_url and 'page/' in next_url
ValidNext(n) == IF n = None THEN FALSE ELSE HasPageMarker(n[1])

\* lines 147-153.  The site serves no page beyond MaxPage: the control of
\* page MaxPage leads nowhere.
PaginateCheck ==
    /\ pc = "paginate"
    /\ \E soup \in CrawlPagination :
          /\ next_url' = get_next_page_url(soup, ListingUrl(page, Years[yi]))
          /\ IF page < MaxPage THEN TRUE ELSE ~ValidNext(next_url')
    /\ IF ValidNext(next_url')
       THEN page' = page + 1 /\ pc' = "fetch" /\ endReason' = endReason
       ELSE page' = page /\ pc' = "year_end" /\ endReason' = "no-next-link"
    /\ UNCHANGED <<table, yi, items, all_pdfs, total, passes,
                   timesUpserted, upsertYears, passCalls, passUpserts,
                   passResolved, passStored>>
    /\ UNCHANGED <<detailVars, pagVars, dlVars>>

\* lines 155-156 and 174-179: the pass reports its count and its locals go
\* out of scope; the run adds the count and goes on to the next year, or
\* closes the store after the last one
YearEnd ==
    /\ pc = "year_end"
    /\ total' = total + all_pdfs
    /\ passes' = Append(passes, [year |-> Years[yi], count |-> all_pdfs])
    /\ IF yi < Len(Years)
       THEN yi' = yi + 1 /\ pc' = "year_start"
       ELSE yi' = yi /\ pc' = "done"
    /\ page' = 1
    /\ items' = <<>>
    /\ all_pdfs' = 0
    /\ next_url' = None
    /\ endReason' = "none"
    /\ passCalls' = Zero
    /\ passUpserts' = 0
    /\ passResolved' = 0
    /\ passStored' = 0
    /\ UNCHANGED <<table, timesUpserted, upsertYears>>
    /\ UNCHANGED <<detailVars, pagVars, dlVars>>

\* the script is started again against the same database file
Rerun ==
    /\ pc \in {"done", "aborted"}
    /\ pc' = "start"
    /\ yi' = 1
    /\ total' = 0
    /\ passes' = <<>>
    /\ UNCHANGED <<table, page, items, all_pdfs, next_url, endReason,
                   timesUpserted, upsertYears, passCalls, passUpserts,
                   passResolved, passStored>>
    /\ UNCHANGED <<detailVars, pagVars, dlVars>>

Init == CrawlInit /\ DetailIdle /\ PagIdle /\ DlIdle

Next ==
    \/ InitDb
    \/ InitDbFailed
    \/ ScrapeYearBegin
    \/ PageFetchFailed
    \/ PageFetched
    \/ ProcessItem
    \/ PaginateCheck
    \/ YearEnd
    \/ Rerun

Spec == Init /\ [][Next]_vars

(***************************************************************************)
(* Properties of the crawl.                                                *)
(***************************************************************************)
RowsOf(p) == {r \in table : r.Page = p}

\* C1: after any sequence of insert_into_db calls the table holds exactly
\* one row per page_url ever upserted and none for any other; the row's
\* Duplicate is 'No' when the page_url has been upserted exactly once and
\* 'Yes' when it has been upserted two or more times, whatever the payloads.
\* An upsert is a call whose statements went through; a call that raised
\* wrote nothing.
C1_OneRowPerUpsertedUrl ==
    /\ \A r \in table : r.Page \in PageUrls
    /\ \A p \in PageUrls :
          /\ timesUpserted[p] = 0 => RowsOf(p) = {}
          /\ timesUpserted[p] >= 1 => Cardinality(RowsOf(p)) = 1
          /\ timesUpserted[p] = 1 => \A r \in RowsOf(p) : r.Duplicate = "No"
          /\ timesUpserted[p] = 2 => \A r \in RowsOf(p) : r.Duplicate = "Yes"

\* one page_url upserted once, the other more than once and under both years
C1_Witness ==
    \E p, q \in PageUrls :
        /\ timesUpserted[p] = 1 /\ timesUpserted[q] = 2
        /\ upsertYears[q] = {Years[1], Years[2]}
        /\ \E r \in table : r.Page = q /\ r.Duplicate = "Yes"
        /\ \E r \in table : r.Page = p /\ r.Duplicate = "No"

\* C2, as claimed: a pass ends only on zero parsed entries or on no next
\* URL with a page-path marker.
C2_EndsOnTwoConditions ==
    pc = "year_end" =>
        \/ endReason = "empty-page" /\ items = <<>>
        \/ endReason = "no-next-link"
              /\ (IF next_url = None THEN TRUE ELSE ~HasPageMarker(next_url[1]))

\* C2, amended: a pass ends exactly on one of three conditions: the listing
\* page cannot be fetched, the parser yields zero entries, or the resolver
\* yields no next URL with a page-path marker.  Each ends the pass on its
\* own: entries are processed only when there are some, and a further page
\* is fetched only after a next URL with the marker.
C2_EndsOnThreeConditions ==
    /\ pc = "year_end" =>
          \/ endReason = "fetch-failed"
          \/ endReason = "empty-page" /\ items = <<>>
          \/ endReason = "no-next-link"
                /\ (IF next_url = None THEN TRUE ELSE ~HasPageMarker(next_url[1]))
    /\ pc = "items" => items # <<>> /\ endReason = "none"
    /\ pc = "paginate" => items = <<>> /\ endReason = "none"
    /\ (pc = "fetch" /\ page > 1) =>
          /\ endReason = "none"
          /\ next_url # None
          /\ (IF next_url = None THEN FALSE ELSE HasPageMarker(next_url[1]))

\* a pass ended by a failed fetch of its second page, with entries saved
C2_Witness ==
    pc = "year_end" /\ endReason = "fetch-failed" /\ page = 2 /\ passStored > 0

\* C5, as claimed: the count a pass reports is the number of its entries
\* that were saved to the store; insert_into_db is called for exactly the
\* entries the resolver gave a URL for.
C5_CountIsEntriesStored ==
    /\ passUpserts = passResolved
    /\ pc = "year_end" => all_pdfs = passStored

RECURSIVE SumCounts(_)
SumCounts(ps) == IF ps = <<>> THEN 0 ELSE Head(ps).count + SumCounts(Tail(ps))

\* C6: no failure of a page or of a document leaves the per-year loop.  The
\* run stops early only when init_db fails, before any pass; a failed
\* listing fetch ends the pass of its year alone and leaves the table as it
\* is; after a pass ends, for whatever reason, the run goes on with the next
\* year of the list, in list order, and after the last year it holds the sum
\* of the counts of all the years.
C6_FailuresStayInsideThePass ==
    /\ [](/\ Len(passes) <= Len(Years)
          /\ \A i \in 1..Len(passes) : passes[i].year = Years[i]
          /\ pc \in {"year_start", "fetch", "items", "paginate", "year_end"}
                => Len(passes) = yi - 1
          /\ pc = "done" => Len(passes) = Len(Years) /\ total = SumCounts(passes))
    /\ [][/\ pc' = "aborted" => pc \in {"start", "aborted"}
          /\ (pc = "fetch" /\ endReason' = "fetch-failed")
                => table' = table /\ pc' = "year_end" /\ yi' = yi
          /\ pc = "year_end"
                => /\ total' = total + all_pdfs
                   /\ IF yi < Len(Years)
                      THEN pc' = "year_start" /\ yi' = yi + 1
                      ELSE pc' = "done"]_vars

\* the last year's pass, after the first year's pass saved entries, ended by
\* a failed fetch with a row written before it and a failed store write
C6_Witness ==
    /\ pc = "year_end" /\ yi = Len(Years) /\ endReason = "fetch-failed"
    /\ passes # <<>> /\ passes[1].count > 0
    /\ passStored > 0 /\ passStored < passUpserts

\* C7: the row of a page_url upserted under one year and later under
\* another carries the later upsert's year and 'Yes'.  Every written upsert
\* leaves the row with the year of the pass that wrote it, the entry's date
\* and the resolved URL, whatever the row held (last write wins); no other
\* step changes a row.
C7_LastWriteWins ==
    /\ [](\A r \in table :
             /\ r.Year_From_URL \in upsertYears[r.Page]
             /\ Cardinality(upsertYears[r.Page]) = 2 => r.Duplicate = "Yes")
    /\ [][IF pc = "items" /\ passStored' = passStored + 1
          THEN LET item == Head(items)
               IN  /\ \E r \in table' :
                        /\ r.Page = item.detail_url
                        /\ r.Year_From_URL = Years[yi]
                        /\ r.Document_Date = item.doc_date
                        /\ r.Duplicate = IF RowsOf(item.detail_url) # {}
                                         THEN "Yes" ELSE "No"
                   /\ \A r \in table' : r.Page = item.detail_url
                        => r.Year_From_URL = Years[yi]
                   /\ \A r \in table : r.Page # item.detail_url => r \in table'
          ELSE table' = table]_vars

\* a row written under the first year and again under the second
C7_Witness ==
    \E r \in table :
        /\ upsertYears[r.Page] = {Years[1], Years[2]}
        /\ r.Year_From_URL = Years[2]
        /\ r.Duplicate = "Yes"
        /\ pc = "year_end" /\ yi = 2 /\ passCalls[r.Page] = 1

C10_RediscoveredNeverSelected ==
    /\ [](\A p \in PageUrls : timesUpserted[p] = 2 =>
             /\ \A r \in RowsOf(p) : r.Duplicate = "Yes"
             /\ \A r \in load_rows(table, FALSE) : r.Page # p
             /\ \E r \in load_rows(table, TRUE) : r.Page = p)
    /\ [][\A r \in table : r.Duplicate = "Yes" =>
             \A r2 \in table' : r2.Page = r.Page => r2.Duplicate = "Yes"]_vars

\* every row of the store has been rediscovered, in a later run of the
\* crawl: the default selection is empty although the rows hold PDF links
C10_Witness ==
    /\ pc = "done"
    /\ Cardinality(table) = 2
    /\ \A p \in PageUrls : timesUpserted[p] = 2
    /\ load_rows(table, FALSE) = {}
    /\ Cardinality(load_rows(table, TRUE)) = 2

(***************************************************************************)
(* The Detail Resolver on every answer of a detail page.                   *)
(***************************************************************************)
InitDetail ==
    /\ dresp \in DetailResponses
    /\ dresult = NotRun
    /\ CrawlIdle /\ PagIdle /\ DlIdle

\* one call of get_direct_pdf_url
Resolve ==
    /\ ~dresult.done
    /\ dresult' = [done |-> TRUE, raised |-> get_direct_pdf_url(dresp).raised,
                   value |-> get_direct_pdf_url(dresp).value]
    /\ UNCHANGED <<dresp, crawlVars, pagVars, dlVars>>

NextDetail == Resolve

SpecDetail == InitDetail /\ [][NextDetail]_vars

(***************************************************************************)
(* The Pagination Resolver on every pagination control and current URL.    *)
(***************************************************************************)
InitPag ==
    /\ psoup \in PagSoups
    /\ purl \in PagUrls
    /\ presult = NotRun
    /\ CrawlIdle /\ DetailIdle /\ DlIdle

\* one call of get_next_page_url
Paginate ==
    /\ ~presult.done
    /\ presult' = [done |-> TRUE, raised |-> FALSE,
                   value |-> get_next_page_url(psoup, purl)]
    /\ UNCHANGED <<psoup, purl, crawlVars, detailVars, dlVars>>

NextPag == Paginate

SpecPag == InitPag /\ [][NextPag]_vars

\* the absolute URL of each href of the model
AbsoluteUrlOf(href) ==
    CASE href = "/files/a.pdf" -> "https://www.aclu.org/files/a.pdf"
      [] href = "https://assets.aclu.org/live/b.pdf" -> "https://assets.aclu.org/live/b.pdf"
      [] OTHER -> "none"

\* a download anchor matches: an <a download>, or an <a> with the text
AnchorMatches(resp) == resp.dl # None \/ resp.txt # None

\* C4, as claimed: the resolver never raises; a fetched page with a matching
\* download anchor gives the absolute PDF URL, a fetched page without one
\* gives None, and a failed fetch gives None.
C4_TotalOverAnchorMatch ==
    dresult.done =>
        /\ ~dresult.raised
        /\ (dresp.fetch = "ok" /\ AnchorMatches(dresp)) => dresult.value # None
        /\ (dresp.fetch = "ok" /\ ~AnchorMatches(dresp)) => dresult.value = None
        /\ dresp.fetch # "ok" => dresult.value = None

\* C4, amended: the resolver never raises; it gives the absolute PDF URL when
\* the fetch succeeds and the first anchor found (the <a download>, else the
\* <a> with the text) carries a non-empty href, and None in every other
\* case: a failed fetch, no anchor, or a found anchor without href.
C4_TotalOverAnchorHref ==
    dresult.done =>
        LET first == IF dresp.dl # None THEN dresp.dl ELSE dresp.txt
            usable == IF first = None THEN FALSE
                      ELSE IF first[1].href = None THEN FALSE
                      ELSE first[1].href[1] # ""
        IN  /\ ~dresult.raised
            /\ (dresp.fetch = "ok" /\ usable)
                  => dresult.value = Some(AbsoluteUrlOf(first[1].href[1]))
            /\ ~(dresp.fetch = "ok" /\ usable) => dresult.value = None

\* a fetched page whose <a download> has no href while its text anchor has
\* one: None
C4_Witness ==
    /\ dresult.done
    /\ dresp.fetch = "ok"
    /\ dresp.dl = Some([href |-> None])
    /\ dresp.txt = Some([href |-> Some("/files/a.pdf")])
    /\ dresult.value = None

\* whether the path holds a /page/N segment, and where
PageSegments(u) ==
    {i \in 1..(Len(u.path) - 1) : u.path[i] = "page" /\ ParseInt(u.path[i + 1]) # None}

\* the URL with the number of its page segment raised by one and all else
\* as it is
PageIncremented(u) ==
    LET i == CHOOSE j \in PageSegments(u) : TRUE
    IN  [u EXCEPT !.path[i + 1] = ToString(ParseInt(u.path[i + 1])[1] + 1)]

\* C3, as claimed: for a current URL that holds a /page/N segment, the
\* fallback (no explicit next link, an active page number on the page)
\* returns that URL with N raised by one, its query and fragment verbatim.
C3_FallbackIncrementsPageSegment ==
    (/\ presult.done
     /\ ExplicitNext(psoup) = None
     /\ CurrentPage(psoup.nums, None) # None
     /\ PageSegments(purl) # {})
        => presult.value = Some(PageIncremented(purl))

(***************************************************************************)
(* The download stage.                                                     *)
(***************************************************************************)
\* os.path.join(year_dir, unique_fname(rowid, pdf_url)): the directory is
\* named by the year, the file by the rowid and by two functions of the URL
\* (the head of its SHA-1 and its sanitized basename), here the URL itself.
\* The crawl writes every row with the year of its pass, so the "unknown"
\* directory of a NULL year is never used.
Dest(r) ==
    [dir |-> ToString(r.Year_From_URL), rowid |-> r.rowid, url |-> r.DirectPDF_Link]

\* line 123: the key rows are sorted by
SortKey(r) == <<IF r.Year_From_URL # 0 THEN r.Year_From_URL ELSE 9999, r.rowid>>

KeyLess(a, b) == a[1] < b[1] \/ (a[1] = b[1] /\ a[2] < b[2])

RECURSIVE Sorted(_)
\* rows.sort(key=...): the rows in ascending order of their keys
Sorted(rs) ==
    IF rs = {} THEN <<>>
    ELSE LET least == CHOOSE r \in rs :
                          \A o \in rs \ {r} : KeyLess(SortKey(r), SortKey(o))
         IN  <<least>> \o Sorted(rs \ {least})

InitDl ==
    /\ dlpc = "start"
    /\ db \in DlDbs
    /\ env \in [aria2c : BOOLEAN, db_file : BOOLEAN]
    /\ args \in [force : BOOLEAN, include_duplicates : BOOLEAN]
    /\ files \in SUBSET {Dest(r) : r \in load_rows(db, TRUE)}
    /\ files0 = files
    /\ rows = <<>>
    /\ completed = 0
    /\ invoked = {}
    /\ CrawlIdle /\ DetailIdle /\ PagIdle

\* main, lines 103-126: the checks, load_rows and the sort
DlStart ==
    /\ dlpc = "start"
    /\ IF ~env.aria2c \/ ~env.db_file
       THEN dlpc' = "exit" /\ rows' = rows
       ELSE /\ rows' = Sorted(load_rows(db, args.include_duplicates))
            /\ dlpc' = IF rows' = <<>> THEN "done" ELSE "loop"
    /\ UNCHANGED <<db, env, args, files, files0, completed, invoked>>
    /\ UNCHANGED <<crawlVars, detailVars, pagVars>>

\* lines 142-171 for one row.  download_one runs aria2c, which writes the
\* file ("written") or not ("failed"), or cannot be run ("raised"): the
\* except clause prints and the loop goes on.
DlRow ==
    /\ dlpc = "loop"
    /\ LET r == Head(rows)
           dest_path == Dest(r)
       IN  IF dest_path \in files /\ ~args.force
           THEN UNCHANGED <<files, invoked>>
           ELSE \E outcome \in {"written", "failed", "raised"} :
                   /\ files' = IF outcome = "written" THEN files \cup {dest_path}
                               ELSE files
                   /\ invoked' = invoked \cup {r.rowid}
    /\ completed' = completed + 1
    /\ rows' = Tail(rows)
    /\ dlpc' = IF Tail(rows) = <<>> THEN "done" ELSE "loop"
    /\ UNCHANGED <<db, env, args, files0>>
    /\ UNCHANGED <<crawlVars, detailVars, pagVars>>

NextDl == DlStart \/ DlRow

SpecDl == InitDl /\ [][NextDl]_vars

\* C9: the stage calls the fetch utility for a row if and only if the row's
\* DirectPDF_Link is non-empty, its Duplicate is not 'Yes' (unless
\* --include-duplicates) and its destination file does not exist yet (unless
\* --force); a row whose file exists is counted and skipped; no step of the
\* stage changes the table.
C9_DownloadsExactlyTheSelected ==
    /\ [](/\ dlpc = "done" =>
               /\ invoked =
                    {r.rowid : r \in
                       {x \in db :
                          /\ x.DirectPDF_Link # NULL /\ x.DirectPDF_Link # ""
                          /\ (args.include_duplicates \/ x.Duplicate # "Yes")
                          /\ (args.force \/
                                [dir |-> ToString(x.Year_From_URL), rowid |-> x.rowid,
                                 url |-> x.DirectPDF_Link] \notin files0)}}
               /\ completed =
                    Cardinality({x \in db :
                          /\ x.DirectPDF_Link # NULL /\ x.DirectPDF_Link # ""
                          /\ (args.include_duplicates \/ x.Duplicate # "Yes")})
          /\ dlpc = "exit" => invoked = {})
    /\ [][db' = db]_vars

\* a finished run without flags that fetched a row with a NULL Duplicate and
\* left out a row marked 'Yes'
C9_Witness ==
    /\ dlpc = "done"
    /\ ~args.force /\ ~args.include_duplicates
    /\ \E r \in db : r.Duplicate = NULL /\ r.rowid \in invoked
    /\ \E r \in db : r.Duplicate = "Yes" /\ r.DirectPDF_Link # "" /\ r.rowid \notin invoked

====
